---------------------------- MODULE Spec2Model ----------------------------
(***************************************************************************)
(* A model of lz (src/src/main.rs): the entry reader, the comparator, the  *)
(* filtered tree assembly, the summary aggregator, format_size, the        *)
(* interactive navigator and the watch loop.                               *)
(*                                                                         *)
(* The filesystem is a finite tree of nodes 0..n.  A path is a sequence of  *)
(* names; node 0 is reached by the path fs.base (the empty path is "/"),   *)
(* every other node by its parent's path and its own name (fs.path, and    *)
(* fs.children for the order read_dir yields).  A file name is             *)
(* a sequence of one-character strings, so that is_hidden, to_lowercase    *)
(* and Path::extension are computed on the characters.                     *)
(* A Result is a record [ok |-> TRUE, val |-> v] or [ok |-> FALSE].        *)
(***************************************************************************)
EXTENDS Integers, Sequences, FiniteSets, TLC

VARIABLES
    fs,         \* the filesystem: [n, base, parent, name, path, children, kind, len,
                \*                  mtime, denied]
    options,    \* ListOptions (main.rs:65-111), the fields the engine reads
    matcher,    \* compile_filter's result: None, or the nodes the glob matches
    entries,    \* a Vec<EntryInfo> as enumerated (the input of sort_entries)
    sorted,     \* the same Vec after sort_entries
    root,       \* the scan root of a single-shot render (a node)
    out,        \* the Result<Vec<DisplayEntry>> of a single-shot render
    summary,    \* the Result<ListingSummary> of compute_summary
    pc,         \* the position of the single-shot program / the sort run
    nav,        \* the navigator: BrowserState, the entries view, the focus, the summary text
    hist,       \* the navigator's last two transitions and the view before them
    watch       \* the watch loop of list_path

vars == <<fs, options, matcher, entries, sorted, root, out, summary, pc, nav, hist, watch>>

-----------------------------------------------------------------------------
(* Bounds *)

\* the longest entry list handed to sort_entries
MaxLen == 3
\* the number of filesystem nodes below "/"
MaxNodes == 3
\* the number of watch iterations observed
MaxIter == 3
\* the number of filesystem nodes below "/" the navigator browses
MaxNavNodes == 2

-----------------------------------------------------------------------------
(* Option, Ordering, characters and strings *)

None == <<>>

Some(x) == <<x>>

\* std::cmp::Ordering as -1 (Less), 0 (Equal), 1 (Greater)
IntCmp(a, b) == IF a < b THEN -1 ELSE IF a > b THEN 1 ELSE 0

\* Ordering::reverse
OrdReverse(o) == 0 - o

\* an Option order in which None is the greatest value
OptCmpNoneGreatest(a, b) ==
    IF a = None /\ b = None THEN 0
    ELSE IF a = None THEN 1
    ELSE IF b = None THEN -1
    ELSE IntCmp(a[1], b[1])

\* Option<T>::cmp: None is less than every Some
OptCmp(a, b) ==
    IF a = None /\ b = None THEN 0
    ELSE IF a = None THEN -1
    ELSE IF b = None THEN 1
    ELSE IntCmp(a[1], b[1])

\* the code point of a character
Code(c) ==
    CASE c = "." -> 46
      [] c = "A" -> 65
      [] c = "B" -> 66
      [] c = "C" -> 67
      [] c = "D" -> 68
      [] c = "T" -> 84
      [] c = "a" -> 97
      [] c = "b" -> 98
      [] c = "c" -> 99
      [] c = "d" -> 100
      [] c = "e" -> 101
      [] c = "t" -> 116
      [] c = "u" -> 117
      [] OTHER -> 120

\* char::to_lowercase on the characters in use
LowerChar(c) ==
    CASE c = "A" -> "a"
      [] c = "B" -> "b"
      [] c = "C" -> "c"
      [] c = "D" -> "d"
      [] c = "T" -> "t"
      [] OTHER -> c

\* str::to_lowercase / to_ascii_lowercase
ToLowercase(s) == [i \in 1..Len(s) |-> LowerChar(s[i])]

RECURSIVE StrCmp(_, _)
\* str::cmp: lexicographic by code point, a proper prefix is less
StrCmp(s, t) ==
    IF s = <<>> /\ t = <<>> THEN 0
    ELSE IF s = <<>> THEN -1
    ELSE IF t = <<>> THEN 1
    ELSE IF Code(s[1]) # Code(t[1]) THEN IntCmp(Code(s[1]), Code(t[1]))
    ELSE StrCmp(Tail(s), Tail(t))

Reverse(s) == [i \in 1..Len(s) |-> s[Len(s) + 1 - i]]

RECURSIVE SelectSeqBy(_, _)
\* the subsequence of s whose elements are in the set keep
SelectSeqBy(s, keep) ==
    IF s = <<>> THEN <<>>
    ELSE (IF s[1] \in keep THEN <<s[1]>> ELSE <<>>) \o SelectSeqBy(Tail(s), keep)

Range(s) == {s[i] : i \in 1..Len(s)}

-----------------------------------------------------------------------------
(* EntryInfo (main.rs:121-146) *)

Kinds == {"dir", "file", "symlink"}

\* EntryInfo::is_dir
is_dir(e) == e.file_type = "dir"

\* EntryInfo::is_symlink
is_symlink(e) == e.file_type = "symlink"

\* EntryInfo::size: metadata.len() for a regular file, 0 otherwise
size(e) == IF e.file_type = "file" THEN e.len ELSE 0

\* is_hidden: the name starts with '.'
is_hidden(name) == Len(name) > 0 /\ name[1] = "."

-----------------------------------------------------------------------------
(* sort_entries (main.rs:351-370) *)

SortKeys == {"Name", "Size", "Age"}

\* the key comparison of the closure, before reverse is applied
KeyCmp(a, b, key) ==
    CASE key = "Name" -> StrCmp(ToLowercase(a.name), ToLowercase(b.name))
      [] key = "Size" -> IntCmp(size(b), size(a))
      [] key = "Age"  -> OptCmp(b.modified, a.modified)

\* a comparator in which reverse also inverts the directory-first clause
EntryCmpReverseAll(a, b, key, reverse) ==
    LET dir_cmp == IntCmp(IF is_dir(b) THEN 1 ELSE 0, IF is_dir(a) THEN 1 ELSE 0)
        cmp == IF dir_cmp # 0 THEN dir_cmp ELSE KeyCmp(a, b, key)
    IN  IF reverse THEN OrdReverse(cmp) ELSE cmp

\* a comparator that ignores reverse
EntryCmpNoReverse(a, b, key, reverse) ==
    LET dir_cmp == IntCmp(IF is_dir(b) THEN 1 ELSE 0, IF is_dir(a) THEN 1 ELSE 0)
    IN  IF dir_cmp # 0 THEN dir_cmp ELSE KeyCmp(a, b, key)

\* the closure given to sort_by: directories first, then the key, reversed on demand
EntryCmp(a, b, key, reverse) ==
    LET dir_cmp == IntCmp(IF is_dir(b) THEN 1 ELSE 0, IF is_dir(a) THEN 1 ELSE 0)
    IN  IF dir_cmp # 0 THEN dir_cmp
        ELSE LET cmp == KeyCmp(a, b, key)
             IN  IF reverse THEN OrdReverse(cmp) ELSE cmp

\* insert e into the sorted sequence s behind every element that is not Greater
InsertStable(s, e, key, reverse) ==
    LET k == Cardinality({i \in 1..Len(s) : EntryCmp(s[i], e, key, reverse) # 1})
    IN  SubSeq(s, 1, k) \o <<e>> \o SubSeq(s, k + 1, Len(s))

RECURSIVE SortFrom(_, _, _, _)
SortFrom(done, rest, key, reverse) ==
    IF rest = <<>> THEN done
    ELSE SortFrom(InsertStable(done, rest[1], key, reverse), Tail(rest), key, reverse)

\* slice::sort_by is a stable sort: equal elements keep their order
sort_entries(es, key, reverse) == SortFrom(<<>>, es, key, reverse)


-----------------------------------------------------------------------------
(* The filesystem, and the std::fs calls the program makes *)

NoNode == 0 - 1

Nodes == 0..fs.n

\* the path of a node: the path of node 0, then the names down to the node
PathOf(n) == fs.path[n]

\* the node a path denotes, if any
Lookup(path) ==
    LET found == {n \in Nodes : fs.path[n] = path}
    IN  IF found = {} THEN NoNode ELSE CHOOSE n \in found : TRUE

\* Path::parent: None for "/", the path without its last component otherwise
PathParent(path) ==
    IF path = <<>> THEN None ELSE Some(SubSeq(path, 1, Len(path) - 1))

\* Path::file_name: None for "/"
FileName(path) == IF path = <<>> THEN None ELSE Some(path[Len(path)])

\* Path::strip_prefix(base).unwrap_or(path)
StripPrefix(path, base) ==
    IF Len(base) <= Len(path) /\ SubSeq(path, 1, Len(base)) = base
    THEN SubSeq(path, Len(base) + 1, Len(path))
    ELSE path

\* Path::extension of the file name: the text after the last '.', None when
\* there is no '.' or the only one starts the name
Extension(name) ==
    LET dots == {i \in 1..Len(name) : name[i] = "."}
        last == CHOOSE i \in dots : \A j \in dots : j <= i
    IN  IF dots = {} \/ last = 1 THEN None
        ELSE Some(SubSeq(name, last + 1, Len(name)))

\* the children of a directory node in the order read_dir yields them
ChildNodes(n) == fs.children[n]

\* the EntryInfo that symlink_metadata gives for a node reached as `path`
EntryOf(n, name, path) ==
    [name |-> name, path |-> path, file_type |-> fs.kind[n],
     len |-> fs.len[n], modified |-> fs.mtime[n]]

Err == [ok |-> FALSE]

Ok(v) == [ok |-> TRUE, val |-> v]

\* fs::symlink_metadata: fails when nothing is at the path
symlink_metadata(path) ==
    LET n == Lookup(path)
    IN  IF n = NoNode THEN Err ELSE Ok(n)

\* fs::read_dir succeeds on a directory that may be listed
CanReadDir(n) == n # NoNode /\ fs.kind[n] = "dir" /\ n \notin fs.denied

\* read_entries (main.rs:322-344): the children of dir, hidden ones only with `all`
read_entries(dir, all) ==
    LET n == Lookup(dir)
        kept == SelectSeq(ChildNodes(n), LAMBDA c : all \/ ~is_hidden(fs.name[c]))
    IN  IF ~CanReadDir(n) THEN Err
        ELSE Ok([i \in 1..Len(kept) |->
                    EntryOf(kept[i], fs.name[kept[i]], Append(dir, fs.name[kept[i]]))])

-----------------------------------------------------------------------------
(* ListOptions (main.rs:65-111) *)

DefaultOptions ==
    [all |-> FALSE, tree |-> FALSE, only_dirs |-> FALSE, only_files |-> FALSE,
     json |-> FALSE, du |-> FALSE, extensions |-> FALSE, watch |-> FALSE,
     sort |-> "Name", reverse |-> FALSE]

-----------------------------------------------------------------------------
(* Values of the variables a specification does not use *)

Idle == "idle"

EmptyFs ==
    [n |-> 0, base |-> <<>>, parent |-> <<>>, name |-> <<>>,
     path |-> [i \in {0} |-> <<>>], children |-> [i \in {0} |-> <<>>],
     kind |-> [i \in {0} |-> "dir"],
     len |-> [i \in {0} |-> 0], mtime |-> [i \in {0} |-> None], denied |-> {}]

-----------------------------------------------------------------------------
(* SpecSort: sort_entries applied to every bounded entry list *)

\* the name of the i-th enumerated child where the names are not what varies
Letter(i) ==
    CASE i = 1 -> "c"
      [] i = 2 -> "a"
      [] i = 3 -> "B"
      [] i = 4 -> "d"
      [] OTHER -> "e"

\* names that sort differently by code point and case-insensitively
NamePool == {<<"a">>, <<"A">>, <<"b">>, <<"B">>, <<"c">>}

Sizes == {1, 2}

Mtimes == {None, Some(1), Some(2)}

\* entry lists as read_entries returns them: the names are pairwise different;
\* the fields the chosen key does not read are fixed
SortInputs(key) ==
    UNION {
      { [i \in 1..n |->
            [name |-> nm[i], path |-> <<nm[i]>>, file_type |-> at[i].file_type,
             len |-> at[i].len, modified |-> at[i].modified]] :
        nm \in {f \in [1..n -> IF key = "Name" THEN NamePool
                                ELSE {<<Letter(j)>> : j \in 1..n}] :
                   /\ \A i, j \in 1..n : i # j => f[i] # f[j]
                   /\ key # "Name" => \A i \in 1..n : f[i] = <<Letter(i)>>},
        at \in [1..n -> [file_type : IF key = "Size" THEN Kinds ELSE {"dir", "file"},
                         len : IF key = "Size" THEN Sizes ELSE {1},
                         modified : IF key = "Age" THEN Mtimes ELSE {Some(1)}]] }
      : n \in 0..MaxLen }

InitSort ==
    /\ fs = EmptyFs
    /\ matcher = None
    /\ root = 0
    /\ out = Idle
    /\ summary = Idle
    /\ nav = Idle
    /\ hist = Idle
    /\ watch = Idle
    /\ \E key \in SortKeys, rev \in BOOLEAN :
          options = [DefaultOptions EXCEPT !.sort = key, !.reverse = rev]
    /\ entries \in SortInputs(options.sort)
    /\ sorted = <<>>
    /\ pc = "sort"

\* entries.sort_by(...) on the enumerated list
SortEntries ==
    /\ pc = "sort"
    /\ sorted' = sort_entries(entries, options.sort, options.reverse)
    /\ pc' = "sorted"
    /\ UNCHANGED <<fs, options, matcher, entries, root, out, summary, nav, hist, watch>>

NextSort == SortEntries

SpecSort == InitSort /\ [][NextSort]_vars

\* the entries of one directory-ness group, in their order in s
Group(s, dirs) == SelectSeq(s, LAMBDA e : is_dir(e) = dirs)

\* C1: after sort_entries, for every key and both values of reverse, the list
\* is a rearrangement of the input in which no non-directory entry comes
\* before a directory entry.
C1_DirsFirst ==
    pc = "sorted" =>
        /\ Len(sorted) = Len(entries)
        /\ Range(sorted) = Range(entries)
        /\ \A i, j \in 1..Len(sorted) :
              (i < j /\ is_dir(sorted[j])) => is_dir(sorted[i])

\* a reversed sort by Size of a list that starts with a file and holds a directory
C1_Witness ==
    /\ pc = "sorted"
    /\ options.reverse
    /\ options.sort = "Size"
    /\ Len(entries) = 3
    /\ ~is_dir(entries[1])
    /\ is_dir(entries[3])
    /\ is_dir(sorted[1])

\* no two entries of one group have names that are equal ignoring case
NoNameTies(s) ==
    \A i, j \in 1..Len(s) :
        (i # j /\ is_dir(s[i]) = is_dir(s[j]))
            => ToLowercase(s[i].name) # ToLowercase(s[j].name)

\* C10 as claimed: within each group, the sort by Name with reverse is the exact
\* reverse of the sort by Name without reverse, names equal ignoring case included.
C10_ReverseExact ==
    (pc = "sorted" /\ options.sort = "Name" /\ options.reverse) =>
        \A dirs \in BOOLEAN :
            Group(sorted, dirs) = Reverse(Group(sort_entries(entries, "Name", FALSE), dirs))

\* C10 amended: the same, for lists in which no two entries of a group have
\* names that are equal ignoring case.
C10_ReverseExactNoTies ==
    (pc = "sorted" /\ options.sort = "Name" /\ options.reverse /\ NoNameTies(entries)) =>
        \A dirs \in BOOLEAN :
            Group(sorted, dirs) = Reverse(Group(sort_entries(entries, "Name", FALSE), dirs))

\* a reversed sort by Name of three files with different names, not in order
C10_Witness ==
    /\ pc = "sorted"
    /\ options.sort = "Name"
    /\ options.reverse
    /\ NoNameTies(entries)
    /\ Len(entries) = 3
    /\ \A i \in 1..3 : ~is_dir(entries[i])
    /\ sorted # entries
    /\ sorted # Reverse(entries)


-----------------------------------------------------------------------------
(* The filter predicate (main.rs:535-556) *)

RECURSIVE JoinPath(_)
\* Path::to_string_lossy: the components joined by the separator
JoinPath(path) ==
    IF path = <<>> THEN <<>>
    ELSE IF Len(path) = 1 THEN path[1]
    ELSE path[1] \o <<"/">> \o JoinPath(Tail(path))

\* normalize_match_path: every backslash of the path text becomes a slash
normalize_match_path(path) ==
    [i \in 1..Len(JoinPath(path)) |->
        IF JoinPath(path)[i] = "\\" THEN "/" ELSE JoinPath(path)[i]]

\* GlobMatcher::is_match: a compiled glob is the set of path texts it matches
is_match(m, text) == text \in m

\* should_print_entry without the only-files test
should_print_entry_no_only_files(entry, rel_path, opts, m) ==
    IF opts.only_dirs /\ ~is_dir(entry) THEN FALSE
    ELSE IF m = None THEN TRUE
    ELSE is_match(m[1], normalize_match_path(rel_path))

\* should_print_entry: the two kind restrictions, then the glob if there is one
should_print_entry(entry, rel_path, opts, m) ==
    IF opts.only_dirs /\ ~is_dir(entry) THEN FALSE
    ELSE IF opts.only_files /\ is_dir(entry) THEN FALSE
    ELSE IF m = None THEN TRUE
    ELSE is_match(m[1], normalize_match_path(rel_path))

-----------------------------------------------------------------------------
(* Tree assembly (main.rs:387-533) *)

RECURSIVE subtree_has_printables(_, _, _, _)
RECURSIVE SubtreeLoop(_, _, _, _, _)

\* the for loop of subtree_has_printables from entry i on
SubtreeLoop(es, i, rootp, opts, m) ==
    IF i > Len(es) THEN Ok(FALSE)
    ELSE IF should_print_entry(es[i], StripPrefix(es[i].path, rootp), opts, m)
         THEN Ok(TRUE)
    ELSE IF is_dir(es[i])
         THEN LET sub == subtree_has_printables(es[i].path, rootp, opts, m)
              IN  IF ~sub.ok THEN Err
                  ELSE IF sub.val THEN Ok(TRUE)
                  ELSE SubtreeLoop(es, i + 1, rootp, opts, m)
    ELSE SubtreeLoop(es, i + 1, rootp, opts, m)

\* subtree_has_printables: some entry below dir, at any depth, is printable
subtree_has_printables(dir, rootp, opts, m) ==
    LET r == read_entries(dir, opts.all)
    IN  IF ~r.ok THEN Err ELSE SubtreeLoop(r.val, 1, rootp, opts, m)

\* the inclusion test of collect_tree_children without the ghost-ancestor clause
IncludedDirectOnly(entry, rel_path, child_has, opts, m) ==
    should_print_entry(entry, rel_path, opts, m)

\* the inclusion test of collect_tree_children: direct || context
Included(entry, rel_path, child_has, opts, m) ==
    LET direct == should_print_entry(entry, rel_path, opts, m)
        context == is_dir(entry) /\ ~opts.only_files /\ child_has
    IN  direct \/ context

RECURSIVE PrintableLoop(_, _, _, _, _, _)
\* the first loop of collect_tree_children: the included children, in order
PrintableLoop(es, i, acc, rootp, opts, m) ==
    IF i > Len(es) THEN Ok(acc)
    ELSE LET entry == es[i]
             rel_path == StripPrefix(entry.path, rootp)
             child_has == IF is_dir(entry)
                          THEN subtree_has_printables(entry.path, rootp, opts, m)
                          ELSE Ok(FALSE)
         IN  IF ~child_has.ok THEN Err
             ELSE IF Included(entry, rel_path, child_has.val, opts, m)
             THEN PrintableLoop(es, i + 1,
                      Append(acc, [entry |-> entry, rel_path |-> rel_path,
                                   child_has |-> child_has.val]),
                      rootp, opts, m)
             ELSE PrintableLoop(es, i + 1, acc, rootp, opts, m)

\* the glyph segments; the vertical bar, the padding, the corner and the branch
Bar == "|   "

Pad == "    "

Corner == "L-- "

Branch == "|-- "

\* a tree_prefix that draws the bar under the ancestors that were last
tree_prefix_swapped(ancestor_more, is_last) ==
    [i \in 1..Len(ancestor_more) |-> IF ancestor_more[i] THEN Pad ELSE Bar]
        \o <<IF is_last THEN Corner ELSE Branch>>

\* tree_prefix: one segment per ancestor flag, then the corner or the branch
tree_prefix(ancestor_more, is_last) ==
    [i \in 1..Len(ancestor_more) |-> IF ancestor_more[i] THEN Bar ELSE Pad]
        \o <<IF is_last THEN Corner ELSE Branch>>

RECURSIVE collect_tree_children(_, _, _, _, _, _)
RECURSIVE EmitLoop(_, _, _, _, _, _, _)

\* the second loop of collect_tree_children from index idx (0-based) on;
\* ancestor_more and out are the two &mut arguments as they stand
EmitLoop(printable, idx, rootp, opts, m, ancestor_more, outv) ==
    IF idx >= Len(printable)
    THEN [ok |-> TRUE, val |-> Len(printable) > 0,
          ancestor_more |-> ancestor_more, out |-> outv]
    ELSE LET item == printable[idx + 1]
             is_last == (idx + 1 = Len(printable))
             pushed == Append(outv, [entry |-> item.entry,
                                     prefix |-> tree_prefix(ancestor_more, is_last),
                                     rel_path |-> item.rel_path])
             sub == collect_tree_children(item.entry.path, rootp, opts, m,
                                          Append(ancestor_more, ~is_last), pushed)
         IN  IF is_dir(item.entry)
             THEN IF ~sub.ok THEN sub
                  ELSE EmitLoop(printable, idx + 1, rootp, opts, m,
                                SubSeq(sub.ancestor_more, 1, Len(sub.ancestor_more) - 1),
                                sub.out)
             ELSE EmitLoop(printable, idx + 1, rootp, opts, m, ancestor_more, pushed)

\* collect_tree_children: read, sort, select the included children, emit them
\* and recurse into the included directories
collect_tree_children(dir, rootp, opts, m, ancestor_more, outv) ==
    LET r == read_entries(dir, opts.all)
        failed == [ok |-> FALSE, ancestor_more |-> ancestor_more, out |-> outv]
        printable == PrintableLoop(sort_entries(r.val, opts.sort, opts.reverse),
                                   1, <<>>, rootp, opts, m)
    IN  IF ~r.ok THEN failed
        ELSE IF ~printable.ok THEN failed
        ELSE EmitLoop(printable.val, 0, rootp, opts, m, ancestor_more, outv)

\* the EntryInfo built from a path and its metadata (main.rs:234-245, 394-404)
PathEntry(path, n) ==
    EntryOf(n, IF FileName(path) = None THEN <<"/">> ELSE FileName(path)[1], path)

\* the flat branch's filter loop over the sorted entries
FlatEntries(es, rootp, opts, m) ==
    LET kept == SelectSeq(es, LAMBDA e :
                    should_print_entry(e, StripPrefix(e.path, rootp), opts, m))
    IN  [i \in 1..Len(kept) |->
            [entry |-> kept[i], prefix |-> <<>>,
             rel_path |-> StripPrefix(kept[i].path, rootp)]]

\* build_display_entries_for_dir: Result<Vec<DisplayEntry>>
build_display_entries_for_dir(dir, rootp, opts, m) ==
    LET md == symlink_metadata(dir)
        first == IF ~opts.only_files
                 THEN <<[entry |-> PathEntry(dir, md.val), prefix |-> <<>>,
                         rel_path |-> <<<<".">>>>]>>
                 ELSE <<>>
        res == collect_tree_children(dir, rootp, opts, m, <<>>, first)
        r == read_entries(dir, opts.all)
    IN  IF opts.tree
        THEN IF ~md.ok THEN Err
             ELSE IF ~res.ok THEN Err
             ELSE Ok(res.out)
        ELSE IF ~r.ok THEN Err
             ELSE Ok(FlatEntries(sort_entries(r.val, opts.sort, opts.reverse),
                                 rootp, opts, m))

-----------------------------------------------------------------------------
(* Summary aggregation (main.rs:701-793) *)

\* ListingSummary::default(); ext is a map from extension to [files, bytes]
EmptySummary == [total_bytes |-> 0, total_files |-> 0, total_dirs |-> 0, ext |-> <<>>]

\* the key add_extension_stat files an entry under
ExtKey(entry) ==
    LET fname == FileName(entry.path)
        ext == IF fname = None THEN None ELSE Extension(fname[1])
    IN  ToLowercase(IF ext = None THEN <<>> ELSE ext[1])

\* add_extension_stat that also files entries that are not regular files
add_extension_stat_any_kind(s, entry) ==
    LET key == ExtKey(entry)
        old == IF key \in DOMAIN s.ext THEN s.ext[key] ELSE [files |-> 0, bytes |-> 0]
        new == [files |-> old.files + 1, bytes |-> old.bytes + size(entry)]
    IN  [s EXCEPT !.ext = [k \in DOMAIN s.ext \cup {key} |->
                              IF k = key THEN new ELSE s.ext[k]]]

\* add_extension_stat: regular files only, one bucket per lower-cased extension
add_extension_stat(s, entry) ==
    IF entry.file_type # "file" THEN s
    ELSE LET key == ExtKey(entry)
             old == IF key \in DOMAIN s.ext THEN s.ext[key] ELSE [files |-> 0, bytes |-> 0]
             new == [files |-> old.files + 1, bytes |-> old.bytes + size(entry)]
         IN  [s EXCEPT !.ext = [k \in DOMAIN s.ext \cup {key} |->
                                   IF k = key THEN new ELSE s.ext[k]]]

\* the else-if branch of walk_summary_dir, counting directories as files too
CountEntryDirsAsFiles(s, entry, rel_path, opts, m) ==
    IF should_print_entry(entry, rel_path, opts, m)
    THEN add_extension_stat([s EXCEPT !.total_files = @ + 1,
                                      !.total_bytes = @ + size(entry)], entry)
    ELSE s

\* what walk_summary_dir adds for one entry once its subtree has been walked
CountEntry(s, entry, rel_path, opts, m) ==
    IF is_dir(entry)
    THEN IF should_print_entry(entry, rel_path, opts, m)
         THEN [s EXCEPT !.total_dirs = @ + 1]
         ELSE s
    ELSE IF should_print_entry(entry, rel_path, opts, m)
         THEN add_extension_stat([s EXCEPT !.total_files = @ + 1,
                                           !.total_bytes = @ + size(entry)], entry)
         ELSE s

RECURSIVE walk_summary_dir(_, _, _, _, _)
RECURSIVE WalkLoop(_, _, _, _, _, _)

\* the for loop of walk_summary_dir from entry i on
WalkLoop(es, i, rootp, opts, m, s) ==
    IF i > Len(es) THEN Ok(s)
    ELSE LET entry == es[i]
             rel_path == StripPrefix(entry.path, rootp)
             below == IF is_dir(entry)
                      THEN walk_summary_dir(entry.path, rootp, opts, m, s)
                      ELSE Ok(s)
         IN  IF ~below.ok THEN Err
             ELSE WalkLoop(es, i + 1, rootp, opts, m,
                           CountEntry(below.val, entry, rel_path, opts, m))

\* walk_summary_dir: every entry read below dir, directories walked before counted
walk_summary_dir(dir, rootp, opts, m, s) ==
    LET r == read_entries(dir, opts.all)
    IN  IF ~r.ok THEN Err ELSE WalkLoop(r.val, 1, rootp, opts, m, s)

\* the relative path of a root that is not a directory (main.rs:246-249, 733-736)
FileRel(path) == IF FileName(path) = None THEN path ELSE <<FileName(path)[1]>>

\* compute_summary: Result<ListingSummary>
compute_summary(path, opts, m) ==
    LET md == symlink_metadata(path)
        entry == PathEntry(path, md.val)
    IN  IF ~md.ok THEN Err
        ELSE IF fs.kind[md.val] = "file"
        THEN IF should_print_entry(entry, FileRel(path), opts, m)
             THEN Ok(add_extension_stat(
                      [EmptySummary EXCEPT !.total_files = 1,
                                           !.total_bytes = size(entry)], entry))
             ELSE Ok(EmptySummary)
        ELSE walk_summary_dir(path, path, opts, m, EmptySummary)

-----------------------------------------------------------------------------
(* The single-shot render (main.rs:219-257) *)

\* a render that failed: nothing reaches output_entries
RenderFailed == [ok |-> FALSE, summary |-> None, out |-> Err]

\* list_path_once: compile the filter, stat the root, summarise on demand,
\* assemble the entries; what output_entries is given, or the failure
list_path_once(path, opts, compiled) ==
    LET md == symlink_metadata(path)
        wanted == opts.du \/ opts.extensions
        sum == compute_summary(path, opts, compiled.val)
        shown == IF wanted THEN Some(sum.val) ELSE None
        es == build_display_entries_for_dir(path, path, opts, compiled.val)
    IN  IF ~compiled.ok THEN RenderFailed
        ELSE IF ~md.ok THEN RenderFailed
        ELSE IF wanted /\ ~sum.ok THEN RenderFailed
        ELSE IF fs.kind[md.val] = "dir"
        THEN IF ~es.ok THEN RenderFailed
             ELSE [ok |-> TRUE, summary |-> shown, out |-> es]
        ELSE [ok |-> TRUE, summary |-> shown,
              out |-> Ok(<<[entry |-> PathEntry(path, md.val), prefix |-> <<>>,
                            rel_path |-> FileRel(path)]>>)]

\* the name of node i: a letter, an extension, and a leading '.' when hidden
NodeName(i, hidden) ==
    (IF hidden THEN <<".">> ELSE <<>>)
        \o <<Letter(i)>>
        \o (CASE i = 1 -> <<".", "t">>
              [] i = 2 -> <<".", "T">>
              [] i = 3 -> <<>>
              [] OTHER -> <<".", "u">>)

RECURSIVE PathIn(_, _, _, _)
\* the path of node i where parent and name are the tree and base is node 0's
PathIn(parent, name, base, i) ==
    IF i = 0 THEN base ELSE Append(PathIn(parent, name, base, parent[i]), name[i])

\* the trees of exactly n nodes below node 0: every node hangs under an earlier
\* directory, at most one name is hidden, every directory may be listed
Filesystems(n, kindSet, base) ==
    { [n |-> n, base |-> base, parent |-> pk[1],
       name |-> [i \in 1..n |-> NodeName(i, i = h)],
       path |-> [i \in 0..n |->
                   PathIn(pk[1], [j \in 1..n |-> NodeName(j, j = h)], base, i)],
       children |-> [i \in 0..n |->
                       SelectSeq([j \in 1..n |-> j], LAMBDA c : pk[1][c] = i)],
       kind |-> [i \in 0..n |-> IF i = 0 THEN "dir" ELSE pk[2][i]],
       len |-> [i \in 0..n |-> 2 ^ i],
       mtime |-> [i \in 0..n |-> Some(i)],
       denied |-> {}] :
      pk \in {x \in [1..n -> 0..n] \X [1..n -> kindSet] :
                 \A i \in 1..n : x[1][i] < i /\ (x[1][i] > 0 => x[2][x[1][i]] = "dir")},
      h \in 0..n }

\* compile_filter's results: an invalid glob, no filter, or a glob, which is
\* the set of the root-relative path texts it matches
Matchers ==
    {Err, Ok(None)} \cup
    {Ok(Some(S)) : S \in SUBSET {normalize_match_path(StripPrefix(PathOf(n), PathOf(root))) :
                                    n \in 1..fs.n}}

\* the state before a single-shot render of the directory at node 0; the
\* command line is read when the render starts
InitList(nodes, kindSet, tree) ==
    /\ fs \in UNION {Filesystems(n, kindSet, <<<<"r">>>>) : n \in 0..nodes}
    /\ root = 0
    /\ matcher = Idle
    /\ options = [DefaultOptions EXCEPT !.tree = tree, !.du = TRUE, !.extensions = TRUE]
    /\ entries = <<>>
    /\ sorted = <<>>
    /\ out = Idle
    /\ summary = Idle
    /\ pc = "start"
    /\ nav = Idle
    /\ hist = Idle
    /\ watch = Idle

\* list_path with watch unset: one call of list_path_once, for every value of
\* --all, --only-dirs, --only-files and --filter
ListPathOnce ==
    /\ pc = "start"
    /\ \E a, od, of \in BOOLEAN, compiled \in Matchers :
          LET opts == [options EXCEPT !.all = a, !.only_dirs = od, !.only_files = of]
          IN  \E res \in {list_path_once(PathOf(root), opts, compiled)} :
                 /\ options' = opts
                 /\ matcher' = compiled
                 /\ out' = res.out
                 /\ summary' = res.summary
                 /\ pc' = IF res.ok THEN "done" ELSE "failed"
    /\ UNCHANGED <<fs, entries, sorted, root, nav, hist, watch>>

InitTree == InitList(MaxNodes, {"dir", "file"}, TRUE)

NextTree == ListPathOnce

\* SpecTree: tree mode over every bounded tree of directories and files
SpecTree == InitTree /\ [][NextTree]_vars

InitSummary == InitList(MaxNodes, Kinds, FALSE)

NextSummary == ListPathOnce

\* SpecSummary: the summary walk over every bounded tree of all entry kinds
SpecSummary == InitSummary /\ [][NextSummary]_vars


-----------------------------------------------------------------------------
(* What the claims about a render speak of, read off the filesystem *)

RECURSIVE Ancestors(_)
\* the nodes above a node, node 0 included
Ancestors(n) == IF n = 0 THEN {} ELSE {fs.parent[n]} \cup Ancestors(fs.parent[n])

\* the nodes below a node, at any depth
Descendants(a) == {d \in 1..fs.n : a \in Ancestors(d)}

\* d, below a, is enumerated by a walk that starts in a: with show-hidden off
\* no name on the way from a down to d is hidden
Enumerated(a, d) ==
    /\ a \in Ancestors(d)
    /\ options.all \/ \A x \in ({d} \cup Ancestors(d)) \ ({a} \cup Ancestors(a)) :
                          ~is_hidden(fs.name[x])

\* the EntryInfo of a node
NodeEntry(n) == EntryOf(n, fs.name[n], PathOf(n))

\* the filter predicate of the render on a node below the scan root
Satisfies(n) ==
    should_print_entry(NodeEntry(n), StripPrefix(PathOf(n), PathOf(root)),
                       options, matcher.val)

\* the node has a line in the assembled output
Appears(n) == \E i \in 1..Len(out.val) : out.val[i].entry.path = PathOf(n)

RECURSIVE SumOver(_, _)
\* the sum of the function f over the finite set S
SumOver(S, f) ==
    IF S = {} THEN 0
    ELSE LET x == CHOOSE y \in S : TRUE IN f[x] + SumOver(S \ {x}, f)

\* C2 as claimed: in tree mode, for every option combination, a directory below
\* the scan root that does not satisfy the filter predicate is in the output
\* exactly if one of its descendants, at any depth, satisfies the predicate.
C2_GhostIffAnyDescendant ==
    (pc = "done" /\ options.tree) =>
        \A n \in 1..fs.n :
            (fs.kind[n] = "dir" /\ ~Satisfies(n)) =>
                (Appears(n) <=> \E d \in Descendants(n) : Satisfies(d))

\* C2 amended: with only-files unset, a directory that the walk from the scan
\* root enumerates and that does not satisfy the predicate is in the output
\* exactly if one of the descendants enumerated below it satisfies the
\* predicate; with only-files set no directory is in the output.
C2_GhostIffEnumeratedDescendant ==
    (pc = "done" /\ options.tree) =>
        /\ ~options.only_files =>
              \A n \in 1..fs.n :
                  (fs.kind[n] = "dir" /\ Enumerated(root, n) /\ ~Satisfies(n)) =>
                      (Appears(n) <=>
                          \E d \in Descendants(n) : Enumerated(n, d) /\ Satisfies(d))
        /\ options.only_files =>
              \A n \in 0..fs.n : fs.kind[n] = "dir" => ~Appears(n)

\* the tree r/{c.t/{a.T}, B} with a filter that matches only r/c.t/a.T: the
\* output is the root, the directory c.t and the file a.T, and not B
C2_Witness ==
    /\ pc = "done"
    /\ options.tree
    /\ ~options.only_files /\ ~options.only_dirs
    /\ fs.n = 3
    /\ fs.parent = <<0, 1, 0>>
    /\ fs.kind[1] = "dir" /\ fs.kind[2] = "file" /\ fs.kind[3] = "file"
    /\ matcher = Ok(Some({normalize_match_path(StripPrefix(PathOf(2), PathOf(root)))}))
    /\ ~Satisfies(1) /\ Satisfies(2) /\ ~Satisfies(3)
    /\ Len(out.val) = 3
    /\ out.val[1].rel_path = <<<<".">>>>
    /\ out.val[2].entry.path = PathOf(1)
    /\ out.val[3].entry.path = PathOf(2)
    /\ ~Appears(3)

\* the entries the summary walk of the scan root reads
Walked == {n \in 1..fs.n : Enumerated(root, n)}

NodeSize(n) == size(NodeEntry(n))

\* C3 as claimed: total_files is the number of walked entries that satisfy the
\* predicate and total_bytes the sum of their sizes.
C3_TotalsCountEntries ==
    (pc = "done" /\ summary # None) =>
        /\ summary[1].total_files = Cardinality({n \in Walked : Satisfies(n)})
        /\ summary[1].total_bytes =
              SumOver({n \in Walked : Satisfies(n)}, [n \in Walked |-> NodeSize(n)])

\* C3 amended: total_files is the number of walked entries that are not
\* directories and satisfy the predicate, total_bytes the sum of their sizes,
\* and total_dirs the number of walked directories that satisfy it; whether an
\* ancestor satisfies the predicate plays no part.
C3_TotalsCountNonDirectories ==
    (pc = "done" /\ summary # None) =>
        /\ summary[1].total_files =
              Cardinality({n \in Walked : fs.kind[n] # "dir" /\ Satisfies(n)})
        /\ summary[1].total_bytes =
              SumOver({n \in Walked : fs.kind[n] # "dir" /\ Satisfies(n)},
                      [n \in Walked |-> NodeSize(n)])
        /\ summary[1].total_dirs =
              Cardinality({n \in Walked : fs.kind[n] = "dir" /\ Satisfies(n)})

\* a regular file is counted although the directory that holds it does not
\* satisfy the predicate, next to a directory that does
C3_Witness ==
    /\ pc = "done"
    /\ summary # None
    /\ \E n \in Walked :
          /\ fs.kind[n] = "file" /\ Satisfies(n)
          /\ fs.parent[n] # 0 /\ ~Satisfies(fs.parent[n])
    /\ summary[1].total_files = 1
    /\ summary[1].total_dirs = 1
    /\ summary[1].total_bytes > 0

\* C4: in every summary the per-extension files add up to total_files and the
\* per-extension bytes to total_bytes.
C4_BucketsAddUp ==
    (pc = "done" /\ summary # None) =>
        LET ext == summary[1].ext
        IN  /\ SumOver(DOMAIN ext, [k \in DOMAIN ext |-> ext[k].files])
                  = summary[1].total_files
            /\ SumOver(DOMAIN ext, [k \in DOMAIN ext |-> ext[k].bytes])
                  = summary[1].total_bytes

-----------------------------------------------------------------------------
(* The interactive navigator (main.rs:876-1115) *)

\* the text set_summary_text is given when a handler reports an error
ErrorText == [tag |-> "error"]

\* the summary view as run_interactive builds it: "Select an entry"
InitialText == [tag |-> "initial"]

\* the placeholder interactive_reload shows for an empty directory: "(empty)"
EmptyText == [tag |-> "empty"]

\* count_children: read_dir of the directory, directories against all the rest;
\* no name is skipped
count_children(dir) ==
    LET n == Lookup(dir)
    IN  IF ~CanReadDir(n) THEN Err
        ELSE Ok(<<Cardinality({c \in Range(ChildNodes(n)) : fs.kind[c] = "dir"}),
                  Cardinality({c \in Range(ChildNodes(n)) : fs.kind[c] # "dir"})>>)

\* update_summary: the description of the entry at path becomes the summary
\* text; a failed stat or a failed count leaves the text as it was
update_summary(s, path) ==
    LET md == symlink_metadata(path)
        counted == count_children(path)
        text == [tag |-> "entry", path |-> path, kind |-> fs.kind[md.val],
                 modified |-> fs.mtime[md.val],
                 size |-> IF fs.kind[md.val] = "file"
                          THEN Some(fs.len[md.val]) ELSE None,
                 children |-> IF fs.kind[md.val] = "dir"
                              THEN Some(counted.val) ELSE None]
    IN  IF ~md.ok THEN [ok |-> FALSE, s |-> s]
        ELSE IF fs.kind[md.val] = "dir" /\ ~counted.ok THEN [ok |-> FALSE, s |-> s]
        ELSE [ok |-> TRUE, s |-> [s EXCEPT !.detail = text]]

\* tui_label without icons: the name, and the separator after a directory
tui_label(entry) == entry.name \o (IF is_dir(entry) THEN <<"/">> ELSE <<>>)

\* the items interactive_reload adds to the entries view
Items(es) == [i \in 1..Len(es) |-> [label |-> tui_label(es[i]), path |-> es[i].path]]

\* interactive_reload: read and sort the current directory; only then clear and
\* refill the view, the focus on the first item; describe that item, or show
\* the placeholder
interactive_reload(s) ==
    LET r == read_entries(s.cwd, s.options.all)
        es == sort_entries(r.val, s.options.sort, s.options.reverse)
        filled == [s EXCEPT !.list = Items(es),
                            !.sel = IF Len(es) > 0 THEN 1 ELSE 0]
    IN  IF ~r.ok THEN [ok |-> FALSE, s |-> s]
        ELSE IF Len(es) > 0 THEN update_summary(filled, es[1].path)
        ELSE [ok |-> TRUE, s |-> [filled EXCEPT !.detail = EmptyText]]

\* interactive_toggle_hidden that sets the option instead of flipping it
interactive_toggle_hidden_set(s) ==
    interactive_reload([s EXCEPT !.options.all = TRUE])

\* interactive_toggle_hidden: flip options.all, then reload
interactive_toggle_hidden(s) ==
    interactive_reload([s EXCEPT !.options.all = ~s.options.all])

\* interactive_go_up that reloads only after a change of directory
interactive_go_up_keep_list(s) ==
    LET parent == PathParent(s.cwd)
    IN  [ok |-> TRUE, s |-> IF parent # None THEN [s EXCEPT !.cwd = parent[1]] ELSE s]

\* interactive_go_up: the parent, when there is one, becomes the current
\* directory; the reload follows in either case
interactive_go_up(s) ==
    LET parent == PathParent(s.cwd)
    IN  interactive_reload(IF parent # None THEN [s EXCEPT !.cwd = parent[1]] ELSE s)

\* interactive_open_or_select: a directory becomes the current directory and
\* is reloaded; anything else is described
interactive_open_or_select(s, path) ==
    LET md == symlink_metadata(path)
    IN  IF ~md.ok THEN [ok |-> FALSE, s |-> s]
        ELSE IF fs.kind[md.val] = "dir"
        THEN interactive_reload([s EXCEPT !.cwd = path])
        ELSE update_summary(s, path)

\* the handlers of run_interactive: an error becomes the summary text
Absorb(res) == IF res.ok THEN res.s ELSE [res.s EXCEPT !.detail = ErrorText]

\* the part of the view a transition is remembered by
Snapshot(op, target, failed) ==
    [op |-> op, target |-> target, failed |-> failed, cwd |-> nav.cwd,
     all |-> nav.options.all, list |-> nav.list]

\* the last two transitions, the latest last
Push(h, e) == IF Len(h) < 2 THEN Append(h, e) ELSE <<h[2], e>>

\* the filesystem f with the directories in S not listable
Deny(f, S) == [f EXCEPT !.denied = S]

\* the navigator as run_interactive sets it up, before its first reload, in
\* any directory of any bounded tree in which at most one directory is not
\* listable
InitNav ==
    /\ \E f \in UNION {Filesystems(n, Kinds, <<>>) : n \in 0..MaxNavNodes} :
          \E S \in {T \in SUBSET {d \in 0..f.n : f.kind[d] = "dir"} : Cardinality(T) <= 1} :
             fs = Deny(f, S)
    /\ \E start \in {d \in 0..fs.n : fs.kind[d] = "dir"}, a \in BOOLEAN :
          nav = [pc |-> "starting", cwd |-> fs.path[start],
                 options |-> [DefaultOptions EXCEPT !.all = a],
                 list |-> <<>>, sel |-> 0, detail |-> InitialText]
    /\ hist = <<>>
    /\ root = 0
    /\ matcher = Idle
    /\ options = Idle
    /\ entries = <<>>
    /\ sorted = <<>>
    /\ out = Idle
    /\ summary = Idle
    /\ pc = Idle
    /\ watch = Idle

\* the frame of every navigator action
NavFrame == UNCHANGED <<fs, options, matcher, entries, sorted, root, out, summary, pc, watch>>

\* run_interactive's own reload (main.rs:947): its error is returned, and
\* siv.run() is not reached
Startup ==
    /\ nav.pc = "starting"
    /\ \E res \in {interactive_reload(nav)} :
          /\ nav' = [res.s EXCEPT !.pc = IF res.ok THEN "browsing" ELSE "aborted"]
          /\ hist' = Push(hist, Snapshot("Startup", None, ~res.ok))
    /\ NavFrame

\* the 'r' callback
Reload ==
    /\ nav.pc = "browsing"
    /\ \E res \in {interactive_reload(nav)} :
          /\ nav' = Absorb(res)
          /\ hist' = Push(hist, Snapshot("Reload", None, ~res.ok))
    /\ NavFrame

\* on_select: the focus moves to another item, which is described
Select ==
    /\ nav.pc = "browsing"
    /\ \E i \in 1..Len(nav.list) :
          /\ i # nav.sel
          /\ \E res \in {update_summary([nav EXCEPT !.sel = i], nav.list[i].path)} :
                /\ nav' = Absorb(res)
                /\ hist' = Push(hist, Snapshot("Select", Some(nav.list[i].path), ~res.ok))
    /\ NavFrame

\* on_submit: Enter on the focused item
Activate ==
    /\ nav.pc = "browsing"
    /\ nav.sel > 0
    /\ \E res \in {interactive_open_or_select(nav, nav.list[nav.sel].path)} :
          /\ nav' = Absorb(res)
          /\ hist' = Push(hist, Snapshot("Activate", Some(nav.list[nav.sel].path), ~res.ok))
    /\ NavFrame

\* the Backspace callback
NavigateUp ==
    /\ nav.pc = "browsing"
    /\ \E res \in {interactive_go_up(nav)} :
          /\ nav' = Absorb(res)
          /\ hist' = Push(hist, Snapshot("NavigateUp", None, ~res.ok))
    /\ NavFrame

\* the 'h' callback
ToggleHidden ==
    /\ nav.pc = "browsing"
    /\ \E res \in {interactive_toggle_hidden(nav)} :
          /\ nav' = Absorb(res)
          /\ hist' = Push(hist, Snapshot("ToggleHidden", None, ~res.ok))
    /\ NavFrame

\* the 'q' and Esc callbacks
Quit ==
    /\ nav.pc = "browsing"
    /\ nav' = [nav EXCEPT !.pc = "quit"]
    /\ hist' = Push(hist, Snapshot("Quit", None, FALSE))
    /\ NavFrame

NextNav == Startup \/ Reload \/ Select \/ Activate \/ NavigateUp \/ ToggleHidden \/ Quit

\* SpecNav: the navigator over every bounded tree
SpecNav == InitNav /\ [][NextNav]_vars

-----------------------------------------------------------------------------
(* Claims about the navigator *)

\* the items of the entries of a directory that a view with `all` shows,
\* whether or not the directory may be listed
ChildItems(dir, all) ==
    LET kept == SelectSeq(ChildNodes(Lookup(dir)),
                          LAMBDA c : all \/ ~is_hidden(fs.name[c]))
    IN  Items(sort_entries([i \in 1..Len(kept) |->
                               EntryOf(kept[i], fs.name[kept[i]],
                                       Append(dir, fs.name[kept[i]]))],
                           nav.options.sort, nav.options.reverse))

\* the last two transitions were Activate on a subdirectory of the current
\* directory, then NavigateUp
ActivatedThenUp ==
    /\ Len(hist) = 2
    /\ hist[1].op = "Activate"
    /\ hist[2].op = "NavigateUp"
    /\ Lookup(hist[1].target[1]) # NoNode
    /\ fs.kind[Lookup(hist[1].target[1])] = "dir"
    /\ PathParent(hist[1].target[1]) = Some(hist[1].cwd)

\* what C5 says of the two transitions: E and its children after Activate,
\* D and the list shown before Activate after NavigateUp
RoundTrip ==
    /\ hist[2].cwd = hist[1].target[1]
    /\ hist[2].list = ChildItems(hist[1].target[1], hist[1].all)
    /\ nav.cwd = hist[1].cwd
    /\ nav.list = hist[1].list

C6_ToggleTwice ==
    (Len(hist) = 2 /\ hist[1].op = "ToggleHidden" /\ hist[2].op = "ToggleHidden") =>
        /\ nav.options.all = hist[1].all
        /\ nav.list = hist[1].list

\* two toggles in a directory with a hidden entry: the list changed and came back
C6_Witness ==
    /\ Len(hist) = 2
    /\ hist[1].op = "ToggleHidden"
    /\ hist[2].op = "ToggleHidden"
    /\ hist[2].list # hist[1].list
    /\ hist[2].all # hist[1].all
    /\ nav.list = hist[1].list

\* C7: a transition that fails, the startup reload included, leaves the
\* navigator browsing with the error text in the detail panel.
C7_FailuresAbsorbed ==
    (Len(hist) > 0 /\ hist[Len(hist)].failed) =>
        /\ nav.pc = "browsing"
        /\ nav.detail = ErrorText

\* C9: NavigateUp in a directory without a parent changes nothing: not the
\* current directory, the options, the list, the selection or the detail panel.
C9_UpAtRootIsNoOp ==
    [][(NavigateUp /\ PathParent(nav.cwd) = None) => nav' = nav]_vars

-----------------------------------------------------------------------------
(* The watch loop of list_path (main.rs:185-217) *)

\* the loop before its first iteration, for a text or a JSON listing, flat or
\* as a tree, with no filter or an invalid one, of any bounded tree in which
\* at most one directory is not listable
InitWatch ==
    /\ \E f \in UNION {Filesystems(n, Kinds, <<<<"r">>>>) : n \in 0..MaxNavNodes} :
          \E S \in {T \in SUBSET {d \in 0..f.n : f.kind[d] = "dir"} : Cardinality(T) <= 1} :
             fs = Deny(f, S)
    /\ root = 0
    /\ \E j, t \in BOOLEAN :
          options = [DefaultOptions EXCEPT !.watch = TRUE, !.json = j, !.tree = t]
    /\ matcher \in {Err, Ok(None)}
    /\ watch = [pc |-> "clear", iter |-> 0, failure |-> "none", reported |-> FALSE]
    /\ out = Idle
    /\ summary = Idle
    /\ entries = <<>>
    /\ sorted = <<>>
    /\ pc = Idle
    /\ nav = Idle
    /\ hist = Idle

\* the top of the loop: without --json, Clear and MoveTo are written to
\* stdout, and an error of either is returned from list_path
WatchClear ==
    /\ watch.pc = "clear"
    /\ IF options.json
       THEN watch' = [watch EXCEPT !.pc = "render"]
       ELSE \E cleared, moved \in BOOLEAN :
               watch' = IF cleared /\ moved
                        THEN [watch EXCEPT !.pc = "render"]
                        ELSE [watch EXCEPT !.pc = "returned", !.failure = "clear"]
    /\ UNCHANGED <<fs, options, matcher, entries, sorted, root, out, summary, pc, nav, hist>>

\* list_path_once, and the report of its error: println! and eprintln! panic
\* when the stream cannot be written
WatchRender ==
    /\ watch.pc = "render"
    /\ \E res \in {list_path_once(PathOf(root), options, matcher)}, written \in BOOLEAN :
          /\ out' = res.out
          /\ summary' = res.summary
          /\ watch' =
                IF res.ok
                THEN IF written \/ (~options.json /\ Len(res.out.val) = 0)
                     THEN [watch EXCEPT !.pc = "flush"]
                     ELSE [watch EXCEPT !.pc = "panicked", !.failure = "write"]
                ELSE IF written
                     THEN [watch EXCEPT !.pc = "flush", !.failure = "render",
                                        !.reported = TRUE]
                     ELSE [watch EXCEPT !.pc = "panicked", !.failure = "write"]
    /\ UNCHANGED <<fs, options, matcher, entries, sorted, root, pc, nav, hist>>

\* with --json stdout is flushed, and an error of the flush is returned
WatchFlush ==
    /\ watch.pc = "flush"
    /\ IF options.json
       THEN \E flushed \in BOOLEAN :
               watch' = IF flushed
                        THEN [watch EXCEPT !.pc = "sleep"]
                        ELSE [watch EXCEPT !.pc = "returned", !.failure = "flush"]
       ELSE watch' = [watch EXCEPT !.pc = "sleep"]
    /\ UNCHANGED <<fs, options, matcher, entries, sorted, root, out, summary, pc, nav, hist>>

\* thread::sleep of two seconds, then the next iteration
WatchSleep ==
    /\ watch.pc = "sleep"
    /\ watch.iter < MaxIter
    /\ watch' = [pc |-> "clear", iter |-> watch.iter + 1, failure |-> "none",
                 reported |-> FALSE]
    /\ UNCHANGED <<fs, options, matcher, entries, sorted, root, out, summary, pc, nav, hist>>

NextWatch == WatchClear \/ WatchRender \/ WatchFlush \/ WatchSleep

\* SpecWatch: list_path with --watch
SpecWatch == InitWatch /\ [][NextWatch]_vars

\* C8: the watch loop never ends on its own: whatever fails in an iteration,
\* the render, the clearing of the display or the writing and flushing of the
\* record, is reported inline and the loop goes on to the sleep and the next
\* iteration.
C8_FailureKeepsLooping ==
    watch.failure # "none" =>
        /\ watch.pc \notin {"returned", "panicked"}
        /\ watch.reported

-----------------------------------------------------------------------------
(* The single-shot render of any path (main.rs:155-173, 219-257) *)

\* the texts a filter can be asked about in a render of the path at `root`:
\* the root-relative paths of the entries, and the file name of the root
MatchTexts ==
    {normalize_match_path(StripPrefix(PathOf(n), PathOf(root))) : n \in 1..fs.n}
        \cup {normalize_match_path(FileRel(PathOf(root)))}

\* compile_filter's results in a render of any path: an invalid glob, no
\* filter, a glob that matches nothing, or one that matches a single text
RootMatchers ==
    {Err, Ok(None), Ok(Some({}))} \cup {Ok(Some({t})) : t \in MatchTexts}

\* the state before a single-shot render of any entry of any bounded tree,
\* a directory, a regular file or a symlink
InitRoot ==
    /\ fs \in UNION {Filesystems(n, Kinds, <<<<"r">>>>) : n \in 0..MaxNavNodes}
    /\ root \in 0..fs.n
    /\ matcher = Idle
    /\ options = DefaultOptions
    /\ entries = <<>>
    /\ sorted = <<>>
    /\ out = Idle
    /\ summary = Idle
    /\ pc = "start"
    /\ nav = Idle
    /\ hist = Idle
    /\ watch = Idle

\* list_path with watch unset on the path at `root`, for every value of
\* --all, --tree, --only-dirs, --only-files and --filter, with and without
\* the summary (--du --extensions)
ListAnyPath ==
    /\ pc = "start"
    /\ \E a, t, od, of, su \in BOOLEAN, compiled \in RootMatchers :
          LET opts == [options EXCEPT !.all = a, !.tree = t, !.only_dirs = od,
                                      !.only_files = of, !.du = su, !.extensions = su]
          IN  \E res \in {list_path_once(PathOf(root), opts, compiled)} :
                 /\ options' = opts
                 /\ matcher' = compiled
                 /\ out' = res.out
                 /\ summary' = res.summary
                 /\ pc' = IF res.ok THEN "done" ELSE "failed"
    /\ UNCHANGED <<fs, entries, sorted, root, nav, hist, watch>>

NextRoot == ListAnyPath

\* SpecRoot: the single-shot render of directories, files and symlinks
SpecRoot == InitRoot /\ [][NextRoot]_vars

\* Path::join of a relative path onto a base
Join(base, rel) == base \o rel

\* the node the operating system resolves a path to: "." components name the
\* directory they follow, and nothing lies below a non-directory
Resolve(path) ==
    LET plain == SelectSeq(path, LAMBDA c : c # <<".">>)
        prefixes == {SubSeq(path, 1, k) : k \in 0..(Len(path) - 1)}
        through == {Lookup(SelectSeq(q, LAMBDA c : c # <<".">>)) : q \in prefixes \ {<<>>}}
    IN  IF \E n \in through : n = NoNode \/ fs.kind[n] # "dir" THEN NoNode
        ELSE Lookup(plain)

\* C11: joining the rel_path of any DisplayEntry of a render onto the scan
\* root gives a path to the entry the DisplayEntry describes: same kind, same
\* size.
C11_RelPathRejoins ==
    (pc = "done" /\ out.ok) =>
        \A i \in 1..Len(out.val) :
            LET n == Resolve(Join(PathOf(root), out.val[i].rel_path))
            IN  /\ n # NoNode
                /\ fs.kind[n] = out.val[i].entry.file_type
                /\ fs.len[n] = out.val[i].entry.len

\* the predicate's verdict on the root path as a single entry
RootAccepted ==
    should_print_entry(PathEntry(PathOf(root), root), FileRel(PathOf(root)),
                       options, matcher.val)

\* C12: the summary of a root that is not a directory, regular file or not,
\* is a one-entry result without a walk: no directories, and one file of the
\* entry's size when the predicate accepts the entry, nothing otherwise.
C12_NonDirRootOneEntry ==
    (pc \in {"done", "failed"} /\ fs.kind[root] # "dir" /\ options.du /\ matcher.ok) =>
        /\ pc = "done"
        /\ summary # None
        /\ summary[1].total_dirs = 0
        /\ summary[1].total_files = (IF RootAccepted THEN 1 ELSE 0)
        /\ summary[1].total_bytes =
              (IF RootAccepted THEN size(PathEntry(PathOf(root), root)) ELSE 0)

-----------------------------------------------------------------------------
(* Claims about the Age order *)

\* newest first, and no entry of unknown modification time before a known one
AgeDescending(s) ==
    \A i, j \in 1..Len(s) :
        i < j =>
            /\ s[i].modified = None => s[j].modified = None
            /\ (s[i].modified # None /\ s[j].modified # None)
                  => s[i].modified[1] >= s[j].modified[1]

\* oldest first, and no entry of known modification time before an unknown one
AgeAscending(s) ==
    \A i, j \in 1..Len(s) :
        i < j =>
            /\ s[j].modified = None => s[i].modified = None
            /\ (s[i].modified # None /\ s[j].modified # None)
                  => s[i].modified[1] <= s[j].modified[1]

\* C13: sorted by Age, each directory-ness group is in descending order of
\* modification time with the unknown times last, whatever reverse is.
C13_AgeDescendingAlways ==
    (pc = "sorted" /\ options.sort = "Age") =>
        \A dirs \in BOOLEAN : AgeDescending(Group(sorted, dirs))

\* C13, amended: that is the order without reverse; with reverse each group
\* is in ascending order of modification time with the unknown times first.
C13_AgeByDirection ==
    (pc = "sorted" /\ options.sort = "Age") =>
        \A dirs \in BOOLEAN :
            IF options.reverse
            THEN AgeAscending(Group(sorted, dirs))
            ELSE AgeDescending(Group(sorted, dirs))

\* three files, one of unknown and two of different known times, that the
\* sort had to rearrange
C13_Witness ==
    /\ pc = "sorted"
    /\ options.sort = "Age"
    /\ ~options.reverse
    /\ Len(entries) = 3
    /\ \A i \in 1..3 : ~is_dir(entries[i])
    /\ {entries[i].modified : i \in 1..3} = {None, Some(1), Some(2)}
    /\ sorted # entries
    /\ sorted[3].modified = None

-----------------------------------------------------------------------------
(* format_size (main.rs:625-641) *)

(* A u64 is written here in base 1024, least significant digit first, in    *)
(* seven digits (the seventh below 16), so that 1024^4 and 2^64 are within  *)
(* reach of the arithmetic; the digits themselves are small integers.       *)

\* the position of the most significant digit that is not 0; 0 for zero
Top(n) ==
    IF \A j \in DOMAIN n : n[j] = 0 THEN 0
    ELSE CHOOSE j \in DOMAIN n : n[j] # 0 /\ \A i \in DOMAIN n : i > j => n[i] = 0

\* the number of bits of a digit
BitsOf(x) == CHOOSE k \in 0..10 : x < 2 ^ k /\ (k > 0 => x >= 2 ^ (k - 1))

\* the number of significant bits of n
BitLen(n) == IF Top(n) = 0 THEN 0 ELSE 10 * (Top(n) - 1) + BitsOf(n[Top(n)])

RECURSIVE AddCarry(_, _, _)
\* n + c * 1024^(j-1)
AddCarry(n, j, c) ==
    IF c = 0 \/ j > Len(n) THEN n
    ELSE AddCarry([n EXCEPT ![j] = (n[j] + c) % 1024], j + 1, (n[j] + c) \div 1024)

RECURSIVE MulFrom(_, _, _, _)
\* n * m from digit j on with carry c: the digits, and the carry out of the last
MulFrom(n, m, j, c) ==
    IF j > Len(n) THEN [limbs |-> <<>>, carry |-> c]
    ELSE LET rest == MulFrom(n, m, j + 1, (n[j] * m + c) \div 1024)
         IN  [limbs |-> <<(n[j] * m + c) % 1024>> \o rest.limbs, carry |-> rest.carry]

RECURSIVE DivFrom(_, _, _, _)
\* n divided by m from digit j down with remainder r: quotient and remainder
DivFrom(n, m, j, r) ==
    IF j = 0 THEN [quot |-> n, rem |-> r]
    ELSE DivFrom([n EXCEPT ![j] = (r * 1024 + n[j]) \div m], m, j - 1,
                 (r * 1024 + n[j]) % m)

RECURSIVE Value(_)
\* the integer a short digit sequence denotes
Value(ds) == IF ds = <<>> THEN 0 ELSE ds[1] + 1024 * Value(Tail(ds))

\* the character of a decimal digit
Digit(d) == <<"0", "1", "2", "3", "4", "5", "6", "7", "8", "9">>[d + 1]

RECURSIVE DecimalInt(_)
\* Display of a small integer
DecimalInt(x) ==
    IF x < 10 THEN <<Digit(x)>> ELSE Append(DecimalInt(x \div 10), Digit(x % 10))

RECURSIVE ToDecimal(_)
\* u64::to_string
ToDecimal(n) ==
    IF Top(n) <= 1 THEN DecimalInt(n[1])
    ELSE Append(ToDecimal(DivFrom(n, 10, Len(n), 0).quot),
                Digit(DivFrom(n, 10, Len(n), 0).rem))

\* `size as f64`: the nearest value of 53 significant bits, ties to the even one
as_f64(n) ==
    LET s == BitLen(n) - 53
        low20 == n[1] + 1024 * n[2]
        low == low20 % (2 ^ s)
        odd == (low20 \div (2 ^ s)) % 2 = 1
        up == low > 2 ^ (s - 1) \/ (low = 2 ^ (s - 1) /\ odd)
        new20 == low20 - low + (IF up THEN 2 ^ s ELSE 0)
    IN  IF BitLen(n) <= 53 THEN n
        ELSE AddCarry([n EXCEPT ![1] = new20 % 1024, ![2] = (new20 \div 1024) % 1024],
                      3, new20 \div (1024 * 1024))

\* UNITS
UNITS == << <<"B">>, <<"K", "i", "B">>, <<"M", "i", "B">>, <<"G", "i", "B">>,
            <<"T", "i", "B">> >>

RECURSIVE DivLoop(_, _)
\* while f >= 1024.0 && idx + 1 < UNITS.len() { f /= 1024.0; idx += 1 }: the
\* division is exact, so f stays the digits n scaled by 1024^-idx
DivLoop(n, idx) ==
    IF Top(n) > idx + 1 /\ idx + 1 < Len(UNITS) THEN DivLoop(n, idx + 1) ELSE idx

\* a {:.1} that drops the digits after the first decimal
RoundsUpNever(rest, tenth) == FALSE

\* {:.1} rounds to the nearest tenth, a tie to the even tenth: rest is what
\* follows the first decimal, as a fraction in base 1024
RoundsUp(rest, tenth) ==
    \/ rest[Len(rest)] > 512
    \/ /\ rest[Len(rest)] = 512
       /\ \/ \E j \in 1..(Len(rest) - 1) : rest[j] # 0
          \/ tenth % 2 = 1

\* the text of a number of tenths: format!("{:.1}", f)
OneDecimal(tenths) == DecimalInt(tenths \div 10) \o <<".", Digit(tenths % 10)>>

\* the tenths {:.1} shows of n * 1024^-idx
ShownTenths(n, idx) ==
    LET scaled == MulFrom(SubSeq(n, 1, idx), 10, 1, 0)
        whole == Value(SubSeq(n, idx + 1, Len(n)))
    IN  10 * whole + scaled.carry
           + (IF RoundsUp(scaled.limbs, scaled.carry) THEN 1 ELSE 0)

\* format_size
format_size(sz, human) ==
    LET idx == DivLoop(as_f64(sz), 0)
    IN  IF ~human THEN ToDecimal(sz)
        ELSE IF idx = 0 THEN ToDecimal(sz) \o <<" ">> \o UNITS[1]
        ELSE OneDecimal(ShownTenths(as_f64(sz), idx)) \o <<" ">> \o UNITS[idx + 1]

\* the digits before the most significant one of a size
LowParts ==
    { <<>>, <<1>>, <<256>>, <<512>>, <<768>>, <<1023>>, <<52>>, <<512, 1>>,
      <<0, 512>>, <<1023, 1023>>, <<1023, 1023, 1023, 1023>>,
      <<204, 819, 204, 51>>, <<205, 819, 204, 51>>, <<1023, 1023, 1023, 1023, 1023, 1023>> }

\* the most significant digits
TopDigits == {0, 1, 8, 15, 1023}

\* the sizes format_size is applied to
SizeInputs ==
    { [j \in 1..7 |-> IF j = id[1] THEN id[2]
                      ELSE IF j < id[1] /\ j <= Len(low) THEN low[j] ELSE 0] :
      low \in LowParts,
      id \in {x \in (1..7) \X TopDigits : x[1] = 7 => x[2] < 16} }

\* before a call of format_size: the size is a total_bytes, human is --human
InitSize ==
    /\ \E sz \in SizeInputs : summary = [total_bytes |-> sz]
    /\ \E h \in BOOLEAN : options = [human |-> h]
    /\ out = Idle
    /\ pc = "format"
    /\ fs = EmptyFs
    /\ matcher = Idle
    /\ root = 0
    /\ entries = <<>>
    /\ sorted = <<>>
    /\ nav = Idle
    /\ hist = Idle
    /\ watch = Idle

\* format_size(summary.total_bytes, human)
FormatSize ==
    /\ pc = "format"
    /\ out' = format_size(summary.total_bytes, options.human)
    /\ pc' = "formatted"
    /\ UNCHANGED <<fs, options, matcher, entries, sorted, root, summary, nav, hist, watch>>

NextSize == FormatSize

\* SpecSize: format_size applied to sizes over the whole range of u64
SpecSize == InitSize /\ [][NextSize]_vars

-----------------------------------------------------------------------------
(* Claims about format_size *)

RECURSIVE ParseFrom(_, _, _)
\* the number a string of decimal digits denotes, read from character i on
ParseFrom(str, i, acc) ==
    IF i > Len(str) THEN acc
    ELSE ParseFrom(str, i + 1,
                   AddCarry(MulFrom(acc, 10, 1, 0).limbs, 1,
                            CHOOSE d \in 0..9 : Digit(d) = str[i]))

\* str is the decimal string of n: digits only, no leading zero, value n
IsDecimalOf(str, n) ==
    /\ Len(str) >= 1
    /\ \A i \in 1..Len(str) : \E d \in 0..9 : Digit(d) = str[i]
    /\ Len(str) > 1 => str[1] # "0"
    /\ ParseFrom(str, 1, [j \in 1..Len(n) |-> 0]) = n

\* the largest k in 1..4 with n >= 1024^k, for n >= 1024
UnitOf(n) == IF Top(n) > 4 THEN 4 ELSE Top(n) - 1

\* the numbers of tenths nearest to n / 1024^k: one, or two at a tie
NearestTenths(n, k) ==
    LET scaled == MulFrom(SubSeq(n, 1, k), 10, 1, 0)
        floor == 10 * Value(SubSeq(n, k + 1, Len(n))) + scaled.carry
        top == scaled.limbs[k]
        lower == \E j \in 1..(k - 1) : scaled.limbs[j] # 0
    IN  (IF top < 512 \/ (top = 512 /\ ~lower) THEN {floor} ELSE {})
           \cup (IF top >= 512 THEN {floor + 1} ELSE {})

\* what C14 says format_size gives for the size n, where v is the value
\* whose quotient is shown
Formatted(str, n, v, human) ==
    IF ~human THEN IsDecimalOf(str, n)
    ELSE IF Top(n) <= 1 THEN str = DecimalInt(n[1]) \o <<" ", "B">>
    ELSE \E tenths \in NearestTenths(v, UnitOf(n)) :
            str = OneDecimal(tenths) \o <<" ">> \o UNITS[UnitOf(n) + 1]

\* the three sizes the specification gives the text of
Examples ==
    /\ format_size(<<0, 0, 0, 0, 0, 0, 0>>, TRUE) = <<"0", " ", "B">>
    /\ format_size(<<0, 1, 0, 0, 0, 0, 0>>, TRUE) = <<"1", ".", "0", " ", "K", "i", "B">>
    /\ format_size(<<512, 1, 0, 0, 0, 0, 0>>, TRUE) = <<"1", ".", "5", " ", "K", "i", "B">>

\* C14: format_size(n, false) is the decimal string of n; format_size(n, true)
\* is "n B" below 1024 and otherwise n / 1024^k to one decimal with the unit
\* of the largest k in 1..4 with n >= 1024^k, for every n.
C14_FormatSize ==
    pc = "formatted" =>
        /\ Formatted(out, summary.total_bytes, summary.total_bytes, options.human)
        /\ Examples

\* C14, amended: the quotient shown is that of n as an f64, which is n itself
\* below 2^53 and n rounded to 53 significant bits from there on.
C14_FormatSizeOfF64 ==
    pc = "formatted" =>
        /\ Formatted(out, summary.total_bytes, as_f64(summary.total_bytes),
                     options.human)
        /\ BitLen(summary.total_bytes) <= 53
              => as_f64(summary.total_bytes) = summary.total_bytes
        /\ Examples

\* 2 TiB less one byte, shown as "2.0 TiB"
C14_Witness ==
    /\ pc = "formatted"
    /\ options.human
    /\ summary.total_bytes = <<1023, 1023, 1023, 1023, 1, 0, 0>>
    /\ out = <<"2", ".", "0", " ", "T", "i", "B">>

-----------------------------------------------------------------------------
(* Claims about the tree prefixes *)

\* the line of a node below the scan root in the assembled output
OutIndex(n) ==
    CHOOSE i \in 1..Len(out.val) :
        out.val[i].entry.path = PathOf(n) /\ out.val[i].rel_path # <<<<".">>>>

\* the nesting level of a node below the scan root
Depth(n) == Len(PathOf(n)) - Len(PathOf(root))

\* the ancestor of n, or n itself, at nesting level j
AncestorAt(n, j) == CHOOSE a \in Ancestors(n) \cup {n} : Depth(a) = j

\* n is the last of the children of its parent that have a line in the output
LastIncluded(n) ==
    \A m \in 1..fs.n :
        (fs.parent[m] = fs.parent[n] /\ Appears(m)) => OutIndex(m) <= OutIndex(n)

\* the prefix C15 describes: bar or padding for each ancestor below the root,
\* top-down, then corner or branch for the entry itself
ExpectedPrefix(n) ==
    [j \in 1..Depth(n) |->
        IF j < Depth(n)
        THEN (IF LastIncluded(AncestorAt(n, j)) THEN Pad ELSE Bar)
        ELSE (IF LastIncluded(n) THEN Corner ELSE Branch)]

\* the ancestor-flag stack a call of collect_tree_children on the scan root that
\* starts with `stack` leaves behind, when it succeeds
StackKept(stack) ==
    LET res == collect_tree_children(PathOf(root), PathOf(root), options,
                                     matcher.val, stack, <<>>)
    IN  res.ok => res.ancestor_more = stack

\* C15: in tree mode the prefix of every entry below the root has one segment
\* per nesting level: bar or padding for each ancestor according to whether it
\* was the last included child of its parent, then the corner exactly for the
\* last included child and the branch otherwise; and collect_tree_children
\* leaves the ancestor-flag stack as it found it.
C15_PrefixFollowsAncestors ==
    (pc = "done" /\ options.tree) =>
        /\ \A i \in 1..Len(out.val) :
              out.val[i].rel_path # <<<<".">>>> =>
                  /\ Len(out.val[i].prefix) = Len(out.val[i].rel_path)
                  /\ out.val[i].prefix = ExpectedPrefix(Lookup(out.val[i].entry.path))
        /\ StackKept(<<TRUE, FALSE>>)

\* an entry two levels down whose parent is followed by another entry, and an
\* entry whose parent is the last one
C15_Witness ==
    /\ pc = "done"
    /\ options.tree
    /\ \E i \in 1..Len(out.val) : out.val[i].prefix = <<Bar, Corner>>
    /\ \E i \in 1..Len(out.val) : out.val[i].prefix = <<Branch>>

-----------------------------------------------------------------------------
(* Claims that relate the navigator's list, the tree and the summary *)

\* C16: whatever transitions the navigator has made, failed ones included,
\* the list it shows is the sorted listing of its current directory under its
\* current show-hidden option.
C16_ListIsListingOfCwd ==
    nav.pc = "browsing" => nav.list = ChildItems(nav.cwd, nav.options.all)

\* the number of lines the node has in the assembled output
Lines(n) ==
    Cardinality({i \in 1..Len(out.val) :
                    out.val[i].entry.path = PathOf(n)
                       /\ out.val[i].rel_path # <<<<".">>>>})

\* the entries the summary walk counts
Counted == {n \in Walked : Satisfies(n)}

\* the summary counts exactly the entries in Counted
TotalsAreCounted ==
    summary[1].total_files + summary[1].total_dirs = Cardinality(Counted)

\* C17: in tree mode, for every combination of the options, every entry that
\* the walk from the scan root enumerates and that satisfies the predicate has
\* exactly one line in the output, so that the displayed entries that satisfy
\* the predicate are the entries the summary counts.
C17_ShownIsCounted ==
    (pc = "done" /\ options.tree) =>
        /\ \A n \in Counted : Lines(n) = 1
        /\ {n \in 1..fs.n : Appears(n) /\ Satisfies(n)} = Counted
        /\ TotalsAreCounted

\* C17, amended: so it is with only-files unset; with only-files set the tree
\* does not descend, and the lines are those of the counted entries that lie
\* directly in the scan root.
C17_ShownIsCountedUnlessOnlyFiles ==
    (pc = "done" /\ options.tree) =>
        /\ ~options.only_files =>
              /\ \A n \in Counted : Lines(n) = 1
              /\ {n \in 1..fs.n : Appears(n) /\ Satisfies(n)} = Counted
        /\ options.only_files =>
              /\ \A n \in 1..fs.n : Lines(n) = (IF n \in Counted /\ Depth(n) = 1 THEN 1 ELSE 0)
        /\ TotalsAreCounted

\* a counted entry two levels down that has its line, next to other counted
\* entries
C17_Witness ==
    /\ pc = "done"
    /\ options.tree
    /\ ~options.only_files
    /\ \E n \in Counted : Depth(n) = 2 /\ Lines(n) = 1
    /\ Cardinality(Counted) >= 2
    /\ \E n \in 1..fs.n : n \notin Counted

=============================================================================
